---- MODULE Spec2Model ----
(***************************************************************************)
(* Model of hms_core.py: the five tables kept by DatabaseManager and the   *)
(* handlers of PatientManager, StaffManager, InventoryManager and          *)
(* OperationsManager that write to them.  Money is kept in integer cents.  *)
(* One operator, one thread: a handler runs to its return before the next  *)
(* one starts; generate_bill is split at its prompts because every         *)
(* execute_query commits on its own.                                       *)
(***************************************************************************)
EXTENDS Integers, Sequences, FiniteSets, TLC

VARIABLES
    patients,      \* table patients: row i has patient_id i
    staff,         \* table staff: row i has staff_id i
    inventory,     \* table inventory: row i has item_id i
    appointments,  \* table appointments
    bills,         \* table bills
    pc,            \* where the operator is: "menu", or a prompt of generate_bill
    pid,           \* generate_bill's patient id
    bill_items,    \* generate_bill's list of lines
    total_amount,  \* generate_bill's running total, in cents
    out            \* what the running (or last) handler has printed

vars == <<patients, staff, inventory, appointments, bills,
          pc, pid, bill_items, total_amount, out>>

tables == <<patients, staff, inventory, appointments, bills>>
locals == <<pid, bill_items, total_amount>>

(* ------------------------------ bounds --------------------------------- *)
MaxPatients == 1
MaxStaff == 2
MaxItems == 2
MaxAppointments == 1
MaxBills == 1
MaxQty == 2
MaxDraws == 2

(* ------------------------- operator's inputs --------------------------- *)
ItemNames == {"Paracetamol", "Gauze"}
(* the price, in cents, the operator enters for each item *)
PriceTyped == ("Paracetamol" :> 2) @@ ("Gauze" :> 5)
NameTexts == {"", "Ann"}
AgeTexts == {"abc", "0", "30"}
GenderTexts == {"m", "q"}
RoleTexts == {"doctor", "NURSE", "surgeon"}
QtyTexts == {"abc", "-1", "0", "2"}
ChangeTexts == {"abc", "-2", "-1", "1"}
IdTexts == {"abc", "1", "2", "3"}
FeeTexts == {"abc", "-1", "4"}
ReqTexts == {"abc", "-1", "0", "1", "2"}
Answers == {"y", "n"}

(* int(text): the decimal literals the operator types; anything else makes *)
(* int() raise ValueError.                                                 *)
IntLiterals == <<"-2", "-1", "0", "1", "2", "3", "4", "30">>
IntValues == <<-2, -1, 0, 1, 2, 3, 4, 30>>
IsNumeric(text) == \E i \in 1..Len(IntLiterals) : IntLiterals[i] = text
int(text) == IntValues[CHOOSE i \in 1..Len(IntLiterals) : IntLiterals[i] = text]

(* str.upper() and str.capitalize() on the texts above *)
upper(text) == CASE text = "m" -> "M" [] text = "q" -> "Q" [] OTHER -> text
capitalize(text) ==
    CASE text = "doctor" -> "Doctor"
      [] text = "NURSE" -> "Nurse"
      [] text = "surgeon" -> "Surgeon"
      [] OTHER -> text

(* ------------------------------ messages ------------------------------- *)
MsgNameRequired == "Error: Name is required."
MsgAgeInvalid == "Error: Age must be a positive integer."
MsgGenderInvalid == "Error: Invalid Gender."
MsgPatientRegistered == "SUCCESS: Patient registered."
MsgRoleInvalid == "Error: Invalid Role."
MsgStaffAdded == "Staff member added successfully."
MsgItemNumeric == "Error: Invalid numeric input."
MsgItemAdded == "Item added to inventory."
MsgItemExists == "Error: Item likely already exists (Name must be unique)."
MsgItemNotFound == "Item not found."
MsgStockNegative == "Error: Resulting stock cannot be negative."
MsgStockUpdated == "Stock updated successfully."
MsgStockInvalid == "Invalid input."
MsgApptNoPatient == "Error: Patient ID not found."
MsgApptBadDoctor == "Error: Invalid Doctor ID."
MsgApptConfirmed == "Appointment confirmed."
MsgApptNumeric == "Invalid numeric input."
MsgBillNoPatient == "Patient not found."
MsgBillInvoicing == "Invoicing for patient"
MsgBillNoItem == "Item not found in inventory."
MsgBillInsufficient == "Error: Insufficient stock."
MsgBillAdded == "Added item to bill and updated inventory."
MsgBillGenerated == "INVOICE GENERATED"
MsgBillAborted == "Invalid input error. Transaction aborted."

(* --------------------------- schema constraints ------------------------ *)
AgeCheck(age) == age > 0
GenderCheck(gender) == gender \in {"M", "F", "O"}
RoleCheck(role) == role \in {"Doctor", "Nurse", "Admin", "Pharmacist"}
(* faulty variant: the quantity column without its CHECK *)
QuantityCheck_unchecked(quantity) == TRUE
QuantityCheck(quantity) == quantity >= 0
TotalAmountCheck(amount) == amount >= 0
ItemNameUnique(inv, name) == \A i \in 1..Len(inv) : inv[i].item_name # name
PatientExists(p) == p \in 1..Len(patients)
StaffExists(s) == s \in 1..Len(staff)

(* SELECT ... FROM inventory WHERE item_name = ?  (0 when there is no row) *)
ItemIdOf(name) ==
    IF \E i \in 1..Len(inventory) : inventory[i].item_name = name
    THEN CHOOSE i \in 1..Len(inventory) : inventory[i].item_name = name
    ELSE 0

(* SELECT 1 FROM staff WHERE staff_id = ? AND role = 'Doctor' *)
(* faulty variant: the role is not looked at *)
IsDoctor_any_staff(s) == StaffExists(s)
IsDoctor(s) == StaffExists(s) /\ staff[s].role = "Doctor"

(* execute_query(INSERT ...): a row that breaks a CHECK, UNIQUE or FOREIGN *)
(* KEY constraint raises IntegrityError, which execute_query swallows: the *)
(* table is left as it was.                                                *)
InsertPatient(ps, name, age, gender) ==
    IF AgeCheck(age) /\ GenderCheck(gender)
    THEN Append(ps, [full_name |-> name, age |-> age, gender |-> gender])
    ELSE ps

InsertStaff(ss, role) ==
    IF RoleCheck(role)
    THEN Append(ss, [role |-> role, is_active |-> TRUE])
    ELSE ss

InsertItem(inv, name, qty, price) ==
    IF ItemNameUnique(inv, name) /\ QuantityCheck(qty)
    THEN Append(inv, [item_name |-> name, quantity |-> qty, price_per_unit |-> price])
    ELSE inv

InsertAppointment(as, p, d) ==
    IF PatientExists(p) /\ StaffExists(d)
    THEN Append(as, [patient_id |-> p, doctor_id |-> d, status |-> "Scheduled"])
    ELSE as

InsertBill(bs, p, items_str, amount) ==
    IF PatientExists(p) /\ TotalAmountCheck(amount)
    THEN Append(bs, [patient_id |-> p, items_summary |-> items_str,
                     total_amount |-> amount, payment_status |-> "Unpaid"])
    ELSE bs

(* execute_query(UPDATE inventory SET quantity = ? WHERE item_id = ?) *)
(* faulty variant: the UPDATE without its WHERE clause *)
UpdateQuantity_every_row(inv, iid, new_qty) ==
    IF QuantityCheck(new_qty)
    THEN [i \in 1..Len(inv) |-> [inv[i] EXCEPT !.quantity = new_qty]]
    ELSE inv
UpdateQuantity(inv, iid, new_qty) ==
    IF QuantityCheck(new_qty)
    THEN [inv EXCEPT ![iid].quantity = new_qty]
    ELSE inv

(* generate_bill, line 402: the stock test of a draw *)
(* faulty variant: the stock test left out *)
InsufficientStock_missing(req_qty, available) == FALSE
InsufficientStock(req_qty, available) == req_qty > available

(* The lines of a bill.  A line is kept as the tuple of the fields its     *)
(* text is formatted from, the cost (in cents) last; items_summary is kept *)
(* as the sequence of the lines that "; ".join strings together.           *)
FeeLine(fee) == <<"Consultation", fee>>
DrawLine(item_name, req_qty, cost) == <<item_name, req_qty, cost>>

Init ==
    /\ patients = <<>>
    /\ staff = <<>>
    /\ inventory = <<>>
    /\ appointments = <<>>
    /\ bills = <<>>
    /\ pc = "menu"
    /\ pid = 0
    /\ bill_items = <<>>
    /\ total_amount = 0
    /\ out = <<>>

(* A handler that returns to the menu: its locals are gone. *)
Return(msgs) ==
    /\ pc' = "menu"
    /\ pid' = 0
    /\ bill_items' = <<>>
    /\ total_amount' = 0
    /\ out' = msgs

(* --------------------------- PatientManager ---------------------------- *)
register_patient(name, ageText, genderText) ==
    /\ pc = "menu"
    /\ IF name = ""
       THEN /\ Return(<<MsgNameRequired>>)
            /\ UNCHANGED tables
       ELSE IF ~IsNumeric(ageText) \/ int(ageText) <= 0
       THEN /\ Return(<<MsgAgeInvalid>>)
            /\ UNCHANGED tables
       ELSE IF upper(genderText) \notin {"M", "F", "O"}
       THEN /\ Return(<<MsgGenderInvalid>>)
            /\ UNCHANGED tables
       ELSE /\ Len(patients) < MaxPatients
            /\ patients' = InsertPatient(patients, name, int(ageText), upper(genderText))
            /\ Return(IF patients' # patients THEN <<MsgPatientRegistered>> ELSE <<>>)
            /\ UNCHANGED <<staff, inventory, appointments, bills>>

(* ----------------------------- StaffManager ---------------------------- *)
add_staff(roleText) ==
    /\ pc = "menu"
    /\ IF capitalize(roleText) \notin {"Doctor", "Nurse", "Admin", "Pharmacist"}
       THEN /\ Return(<<MsgRoleInvalid>>)
            /\ UNCHANGED tables
       ELSE /\ Len(staff) < MaxStaff
            /\ staff' = InsertStaff(staff, capitalize(roleText))
            /\ Return(IF staff' # staff THEN <<MsgStaffAdded>> ELSE <<>>)
            /\ UNCHANGED <<patients, inventory, appointments, bills>>

(* --------------------------- InventoryManager -------------------------- *)
add_item(name, qtyText, price) ==
    /\ pc = "menu"
    /\ IF ~IsNumeric(qtyText)
       THEN /\ Return(<<MsgItemNumeric>>)
            /\ UNCHANGED tables
       ELSE /\ Len(InsertItem(inventory, name, int(qtyText), price)) <= MaxItems
            /\ inventory' = InsertItem(inventory, name, int(qtyText), price)
            /\ Return(IF inventory' # inventory THEN <<MsgItemAdded>> ELSE <<MsgItemExists>>)
            /\ UNCHANGED <<patients, staff, appointments, bills>>

(* faulty variant: update_stock without the new_qty < 0 test *)
update_stock_unguarded(item_name, changeText) ==
    /\ pc = "menu"
    /\ LET item_id == ItemIdOf(item_name) IN
       IF item_id = 0
       THEN /\ Return(<<MsgItemNotFound>>)
            /\ UNCHANGED tables
       ELSE IF ~IsNumeric(changeText)
       THEN /\ Return(<<MsgStockInvalid>>)
            /\ UNCHANGED tables
       ELSE LET new_qty == inventory[item_id].quantity + int(changeText) IN
            /\ new_qty <= MaxQty
            /\ inventory' = UpdateQuantity(inventory, item_id, new_qty)
            /\ Return(<<MsgStockUpdated>>)
            /\ UNCHANGED <<patients, staff, appointments, bills>>

update_stock(item_name, changeText) ==
    /\ pc = "menu"
    /\ LET item_id == ItemIdOf(item_name) IN
       IF item_id = 0
       THEN /\ Return(<<MsgItemNotFound>>)
            /\ UNCHANGED tables
       ELSE IF ~IsNumeric(changeText)
       THEN /\ Return(<<MsgStockInvalid>>)
            /\ UNCHANGED tables
       ELSE LET new_qty == inventory[item_id].quantity + int(changeText) IN
            IF new_qty < 0
            THEN /\ Return(<<MsgStockNegative>>)
                 /\ UNCHANGED tables
            ELSE /\ new_qty <= MaxQty
                 /\ inventory' = UpdateQuantity(inventory, item_id, new_qty)
                 /\ Return(<<MsgStockUpdated>>)
                 /\ UNCHANGED <<patients, staff, appointments, bills>>

(* --------------------------- OperationsManager ------------------------- *)
(* faulty variant: the doctor is checked before the patient *)
schedule_appointment_doctor_first(pidText, didText) ==
    /\ pc = "menu"
    /\ IF ~IsNumeric(pidText) \/ ~IsNumeric(didText)
       THEN /\ Return(<<MsgApptNumeric>>)
            /\ UNCHANGED tables
       ELSE IF ~IsDoctor(int(didText))
       THEN /\ Return(<<MsgApptBadDoctor>>)
            /\ UNCHANGED tables
       ELSE IF ~PatientExists(int(pidText))
       THEN /\ Return(<<MsgApptNoPatient>>)
            /\ UNCHANGED tables
       ELSE /\ Len(appointments) < MaxAppointments
            /\ appointments' = InsertAppointment(appointments, int(pidText), int(didText))
            /\ Return(IF appointments' # appointments THEN <<MsgApptConfirmed>> ELSE <<>>)
            /\ UNCHANGED <<patients, staff, inventory, bills>>

schedule_appointment(pidText, didText) ==
    /\ pc = "menu"
    /\ IF ~IsNumeric(pidText)
       THEN /\ Return(<<MsgApptNumeric>>)
            /\ UNCHANGED tables
       ELSE IF ~PatientExists(int(pidText))
       THEN /\ Return(<<MsgApptNoPatient>>)
            /\ UNCHANGED tables
       ELSE IF ~IsNumeric(didText)
       THEN /\ Return(<<MsgApptNumeric>>)
            /\ UNCHANGED tables
       ELSE IF ~IsDoctor(int(didText))
       THEN /\ Return(<<MsgApptBadDoctor>>)
            /\ UNCHANGED tables
       ELSE /\ Len(appointments) < MaxAppointments
            /\ appointments' = InsertAppointment(appointments, int(pidText), int(didText))
            /\ Return(IF appointments' # appointments THEN <<MsgApptConfirmed>> ELSE <<>>)
            /\ UNCHANGED <<patients, staff, inventory, bills>>

(* faulty variant: the handler stores what was composed before returning *)
Abort_with_bill ==
    /\ bills' = InsertBill(bills, pid, bill_items, total_amount)
    /\ Return(Append(out, MsgBillAborted))
    /\ UNCHANGED <<patients, staff, inventory, appointments>>
(* generate_bill, lines 429-430: a ValueError anywhere in the handler *)
Abort ==
    /\ Return(Append(out, MsgBillAborted))
    /\ UNCHANGED tables

(* generate_bill, lines 366-377: the patient prompt *)
generate_bill_begin(pidText) ==
    /\ pc = "menu"
    /\ IF ~IsNumeric(pidText)
       THEN /\ Return(<<MsgBillAborted>>)
            /\ UNCHANGED tables
       ELSE IF ~PatientExists(int(pidText))
       THEN /\ Return(<<MsgBillNoPatient>>)
            /\ UNCHANGED tables
       ELSE /\ pc' = "fee"
            /\ pid' = int(pidText)
            /\ bill_items' = <<>>
            /\ total_amount' = 0
            /\ out' = <<MsgBillInvoicing>>
            /\ UNCHANGED tables

(* generate_bill, lines 379-384: the consultation fee prompt *)
(* faulty variant: the fee line is appended but not added to the total *)
generate_bill_fee_not_totalled(answer, feeText) ==
    /\ pc = "fee"
    /\ IF answer # "y"
       THEN /\ pc' = "items"
            /\ UNCHANGED <<tables, locals, out>>
       ELSE IF ~IsNumeric(feeText)
       THEN Abort
       ELSE /\ pc' = "items"
            /\ bill_items' = Append(bill_items, FeeLine(int(feeText)))
            /\ UNCHANGED <<tables, pid, total_amount, out>>

generate_bill_fee(answer, feeText) ==
    /\ pc = "fee"
    /\ IF answer # "y"
       THEN /\ pc' = "items"
            /\ UNCHANGED <<tables, locals, out>>
       ELSE IF ~IsNumeric(feeText)
       THEN Abort
       ELSE /\ pc' = "items"
            /\ bill_items' = Append(bill_items, FeeLine(int(feeText)))
            /\ total_amount' = total_amount + int(feeText)
            /\ UNCHANGED <<tables, pid, out>>

(* Turns of the item loop taken so far: each one has printed one message. *)
LoopTurns == Len(out) - 1

(* generate_bill, lines 385-412: one turn of the item loop, answered 'y' *)
generate_bill_item(item_name, reqText) ==
    /\ pc = "items"
    /\ LoopTurns < MaxDraws
    /\ LET iid == ItemIdOf(item_name) IN
       IF iid = 0
       THEN /\ out' = Append(out, MsgBillNoItem)
            /\ UNCHANGED <<tables, pc, locals>>
       ELSE IF ~IsNumeric(reqText)
       THEN Abort
       ELSE LET price == inventory[iid].price_per_unit
                available == inventory[iid].quantity
                req_qty == int(reqText)
                new_qty == available - req_qty
                cost == price * req_qty
            IN IF InsufficientStock(req_qty, available)
               THEN /\ out' = Append(out, MsgBillInsufficient)
                    /\ UNCHANGED <<tables, pc, locals>>
               ELSE /\ new_qty <= MaxQty
                    /\ inventory' = UpdateQuantity(inventory, iid, new_qty)
                    /\ bill_items' = Append(bill_items, DrawLine(item_name, req_qty, cost))
                    /\ total_amount' = total_amount + cost
                    /\ out' = Append(out, MsgBillAdded)
                    /\ UNCHANGED <<patients, staff, appointments, bills, pc, pid>>

(* generate_bill, lines 386-387 and 414-427: the loop answered 'n' *)
generate_bill_finalize ==
    /\ pc = "items"
    /\ Len(InsertBill(bills, pid, bill_items, total_amount)) <= MaxBills
    /\ bills' = InsertBill(bills, pid, bill_items, total_amount)
    /\ Return(Append(out, MsgBillGenerated))
    /\ UNCHANGED <<patients, staff, inventory, appointments>>

(* ----------------------------- specifications -------------------------- *)
RegisterPatient ==
    \E n \in NameTexts, a \in AgeTexts, g \in GenderTexts : register_patient(n, a, g)
AddStaff == \E r \in RoleTexts : add_staff(r)
AddItem == \E n \in ItemNames, q \in QtyTexts : add_item(n, q, PriceTyped[n])
UpdateStock == \E n \in ItemNames, c \in ChangeTexts : update_stock(n, c)
ScheduleAppointment == \E p \in IdTexts, d \in IdTexts : schedule_appointment(p, d)
GenerateBill ==
    \/ \E p \in IdTexts : generate_bill_begin(p)
    \/ \E a \in Answers, f \in FeeTexts : generate_bill_fee(a, f)
    \/ \E n \in ItemNames, r \in ReqTexts : generate_bill_item(n, r)
    \/ generate_bill_finalize

(* The whole menu. *)
Next ==
    \/ RegisterPatient
    \/ AddStaff
    \/ AddItem
    \/ UpdateStock
    \/ ScheduleAppointment
    \/ GenerateBill
Spec == Init /\ [][Next]_vars

(* Inventory and billing: the operations that touch stock and bills. *)
NextBilling ==
    \/ RegisterPatient
    \/ AddItem
    \/ UpdateStock
    \/ GenerateBill
SpecBilling == Init /\ [][NextBilling]_vars

(* Composition: stock keeping and the prompts of generate_bill up to, but  *)
(* not including, the answer that ends the item loop; a composition ends   *)
(* here only by an abort, so no bill is ever stored.                       *)
NextCompose ==
    \/ RegisterPatient
    \/ AddItem
    \/ UpdateStock
    \/ \E p \in IdTexts : generate_bill_begin(p)
    \/ \E a \in Answers, f \in FeeTexts : generate_bill_fee(a, f)
    \/ \E n \in ItemNames, r \in ReqTexts : generate_bill_item(n, r)
SpecCompose == Init /\ [][NextCompose]_vars

(* Stock keeping alone: the two InventoryManager handlers that write. *)
NextStock ==
    \/ AddItem
    \/ UpdateStock
SpecStock == Init /\ [][NextStock]_vars

(* Records: the operations that create patients, staff, appointments and   *)
(* bills (no inventory is ever added, so every draw names a missing item). *)
NextRecords ==
    \/ RegisterPatient
    \/ AddStaff
    \/ ScheduleAppointment
    \/ GenerateBill
SpecRecords == Init /\ [][NextRecords]_vars

(* ------------------------------ properties ----------------------------- *)
Last(seq) == seq[Len(seq)]
Cost(line) == line[Len(line)]
RECURSIVE SumCosts(_)
SumCosts(lines) == IF lines = <<>> THEN 0 ELSE Cost(Head(lines)) + SumCosts(Tail(lines))
IsDrawLine(line) == Len(line) = 3
OthersUnchanged(iid) ==
    /\ Len(inventory') = Len(inventory)
    /\ \A j \in 1..Len(inventory) : j # iid => inventory'[j] = inventory[j]

(* C1: in every reachable state the stored quantity of every inventory     *)
(* item is at least 0, whatever add_item, update_stock and generate_bill   *)
(* were given (negative initial quantities, deltas and draws included).    *)
C1_QuantityNeverNegative ==
    \A i \in 1..Len(inventory) : inventory[i].quantity >= 0

(* An item has been drawn down to 0 by a bill and a removal below 0 has    *)
(* just been refused.                                                      *)
C1_Witness ==
    /\ out = <<MsgStockNegative>>
    /\ \E i \in 1..Len(inventory) : inventory[i].quantity = 0
    /\ \E b \in 1..Len(bills) : \E l \in 1..Len(bills[b].items_summary) :
           IsDrawLine(bills[b].items_summary[l])

(* C2: update_stock on an existing item with quantity qty and an integer   *)
(* delta: if qty + delta >= 0 it succeeds and the item's quantity becomes  *)
(* qty + delta, otherwise it fails and the quantity stays qty; no other    *)
(* item changes either way.                                                *)
C2_UpdateStockContract ==
    [][\A n \in ItemNames, c \in ChangeTexts :
          (update_stock(n, c) /\ ItemIdOf(n) # 0 /\ IsNumeric(c)) =>
              LET i == ItemIdOf(n)
                  qty == inventory[i].quantity
                  delta == int(c)
              IN /\ OthersUnchanged(i)
                 /\ inventory'[i].item_name = n
                 /\ IF qty + delta >= 0
                    THEN /\ out' = <<MsgStockUpdated>>
                         /\ inventory'[i].quantity = qty + delta
                    ELSE /\ out' = <<MsgStockNegative>>
                         /\ inventory'[i].quantity = qty]_vars

(* Two items in stock and a stock update has just succeeded. *)
C2_Witness ==
    /\ out = <<MsgStockUpdated>>
    /\ Len(inventory) = 2
    /\ inventory[1].quantity # inventory[2].quantity

(* C3: every persisted Bill row's total_amount is the sum of the costs of  *)
(* the lines recorded in it (the fee, if any, plus unit price * quantity   *)
(* of each accepted draw), in cents.                                       *)
C3_TotalIsSumOfLines ==
    \A b \in 1..Len(bills) : bills[b].total_amount = SumCosts(bills[b].items_summary)

(* A bill holding a fee line followed by a draw line, and a total that is  *)
(* more than either.                                                       *)
C3_Witness ==
    \E b \in 1..Len(bills) :
        LET lines == bills[b].items_summary IN
        /\ Len(lines) = 2
        /\ ~IsDrawLine(lines[1]) /\ Cost(lines[1]) > 0
        /\ IsDrawLine(lines[2]) /\ Cost(lines[2]) > 0
        /\ bills[b].total_amount = Cost(lines[1]) + Cost(lines[2])

(* C4: every composition that reaches finalization persists exactly one    *)
(* new Bill row for the patient, with the line summary, the accumulated    *)
(* total and status 'Unpaid', whatever the fee and draw inputs were.       *)
C4_FinalizePersistsOneBill ==
    [][generate_bill_finalize =>
          bills' = Append(bills, [patient_id |-> pid, items_summary |-> bill_items,
                                  total_amount |-> total_amount,
                                  payment_status |-> "Unpaid"])]_vars

(* C5: an accepted draw of q on an item with stock s and price p (q <= s)  *)
(* sets the item's quantity to s - q, appends one line for that item and   *)
(* quantity, adds p * q to the running total and leaves every other item   *)
(* alone; a second draw of the same item reads the stock the first left.   *)
C5_AcceptedDraw ==
    [][\A n \in ItemNames, r \in ReqTexts :
          (/\ generate_bill_item(n, r)
           /\ ItemIdOf(n) # 0
           /\ IsNumeric(r)
           /\ int(r) <= inventory[ItemIdOf(n)].quantity) =>
              LET i == ItemIdOf(n)
                  s == inventory[i].quantity
                  p == inventory[i].price_per_unit
                  q == int(r)
              IN /\ inventory'[i].quantity = s - q
                 /\ inventory'[i].price_per_unit = p
                 /\ inventory'[i].item_name = n
                 /\ OthersUnchanged(i)
                 /\ bill_items' = Append(bill_items, <<n, q, p * q>>)
                 /\ total_amount' = total_amount + p * q
                 /\ bills' = bills
                 /\ pc' = "items"]_vars

(* The same item has been drawn twice in one invoice, one unit each time,  *)
(* and its stock is now 0 while the other item still has stock.            *)
C5_Witness ==
    /\ pc = "items"
    /\ Len(bill_items) = 2
    /\ IsDrawLine(bill_items[1]) /\ IsDrawLine(bill_items[2])
    /\ bill_items[1][1] = bill_items[2][1]
    /\ bill_items[1][2] = 1 /\ bill_items[2][2] = 1
    /\ Len(inventory) = 2
    /\ inventory[ItemIdOf(bill_items[1][1])].quantity = 0
    /\ \E j \in 1..2 : inventory[j].quantity > 0

(* C6: a draw that asks for more than the stock, or names an item that     *)
(* does not exist, is rejected: stock, bill lines, running total and bills *)
(* are unchanged and the composition stays in the item loop.               *)
C6_RejectedDraw ==
    [][\A n \in ItemNames, r \in ReqTexts :
          (/\ generate_bill_item(n, r)
           /\ \/ ItemIdOf(n) = 0
              \/ /\ IsNumeric(r)
                 /\ int(r) > inventory[ItemIdOf(n)].quantity) =>
              /\ UNCHANGED <<tables, locals>>
              /\ pc' = "items"
              /\ Last(out') \in {MsgBillNoItem, MsgBillInsufficient}]_vars

(* An invoice in which a draw was refused for lack of stock, a later draw  *)
(* was accepted and the bill was then persisted with that one line.        *)
C6_Witness ==
    /\ out = <<MsgBillInvoicing, MsgBillInsufficient, MsgBillAdded, MsgBillGenerated>>
    /\ Len(bills) = 1
    /\ Len(bills[1].items_summary) = 1

(* C7: schedule_appointment checks the patient before the doctor.  A       *)
(* patient id that does not exist gives the patient-not-found outcome      *)
(* whatever the doctor id is; an existing patient with a doctor id that is *)
(* absent or belongs to non-Doctor staff gives the invalid-doctor outcome. *)
(* Neither creates an appointment or changes any table.                    *)
C7_ScheduleChecks ==
    [][\A p \in IdTexts, d \in IdTexts :
          (schedule_appointment(p, d) /\ IsNumeric(p)) =>
              /\ ~(int(p) \in 1..Len(patients)) =>
                     (out' = <<MsgApptNoPatient>> /\ UNCHANGED tables)
              /\ (/\ int(p) \in 1..Len(patients)
                  /\ IsNumeric(d)
                  /\ ~(int(d) \in 1..Len(staff) /\ staff[int(d)].role = "Doctor")) =>
                     (out' = <<MsgApptBadDoctor>> /\ UNCHANGED tables)]_vars

(* The only staff member is a Nurse, a patient exists, and scheduling has  *)
(* just been refused for an invalid doctor.                                *)
C7_Witness ==
    /\ out = <<MsgApptBadDoctor>>
    /\ Len(patients) >= 1
    /\ Len(staff) >= 1
    /\ \A s \in 1..Len(staff) : staff[s].role = "Nurse"
    /\ appointments = <<>>

(* C8: every stored appointment references an existing patient and a       *)
(* staff row whose role is Doctor, and every stored bill references an     *)
(* existing patient.                                                       *)
C8_ReferencesResolve ==
    /\ \A a \in 1..Len(appointments) :
           /\ appointments[a].patient_id \in 1..Len(patients)
           /\ appointments[a].doctor_id \in 1..Len(staff)
           /\ staff[appointments[a].doctor_id].role = "Doctor"
    /\ \A b \in 1..Len(bills) : bills[b].patient_id \in 1..Len(patients)

(* An appointment and a bill are stored, next to a Nurse, and generate_bill *)
(* has just been refused for a patient id that does not exist.             *)
C8_Witness ==
    /\ Len(appointments) >= 1
    /\ Len(bills) >= 1
    /\ \E s \in 1..Len(staff) : staff[s].role = "Nurse"
    /\ out = <<MsgBillNoPatient>>

(* C9: a composition aborted by a non-numeric input leaves the inventory   *)
(* as the accepted draws left it and creates no Bill row.                  *)
C9_AbortKeepsDebits ==
    [][(pc \in {"fee", "items"} /\ pc' = "menu" /\ Last(out') = MsgBillAborted) =>
          /\ inventory' = inventory
          /\ bills' = bills]_vars

(* A composition has just been aborted after one accepted draw: the only   *)
(* item is left with 1 unit and no bill exists.                            *)
C9_Witness ==
    /\ out = <<MsgBillInvoicing, MsgBillAdded, MsgBillAborted>>
    /\ pc = "menu"
    /\ bills = <<>>
    /\ Len(inventory) = 1
    /\ inventory[1].quantity = 1

(* C10: whatever integer quantity is entered for a draw, the draw never    *)
(* raises any item's stored quantity and never lowers the running total.   *)
C10_DrawNeverRaisesStock ==
    [][\A n \in ItemNames, r \in ReqTexts :
          (generate_bill_item(n, r) /\ IsNumeric(r)) =>
              /\ \A i \in 1..Len(inventory) :
                     inventory'[i].quantity <= inventory[i].quantity
              /\ total_amount' >= total_amount]_vars

====
